---- MODULE Spec2Model ----
(***************************************************************************)
(* backhand: reading a SquashFS v4.0 image.                                *)
(*                                                                         *)
(*   Spec      Squashfs::from_reader / from_reader_with_offset             *)
(*             (src/src/squashfs.rs) with the table readers of             *)
(*             SquashfsReader (src/src/reader.rs) over byte streams.       *)
(*   SpecWalk  Squashfs::into_filesystem_reader / extract_dir /            *)
(*             dir_from_index (src/src/squashfs.rs) over archives whose    *)
(*             directory table is held as bytes.                           *)
(*                                                                         *)
(* Bytes are naturals below 256, byte strings are sequences of bytes, and  *)
(* all multi-byte integers are little-endian.                              *)
(***************************************************************************)
EXTENDS Integers, Sequences, FiniteSets, TLC

VARIABLES
    layout,      \* the description the archive under walk was built from
    inodes,      \* Squashfs.inodes: inode number -> Inode
    root_inode,  \* Squashfs.root_inode
    dir_blocks,  \* Squashfs.dir_blocks: <<relative start, bytes>>
    wpc,         \* position of into_filesystem_reader: idle, walking, done
    stack,       \* the active extract_dir calls, innermost last
    nodes,       \* the local `nodes` of into_filesystem_reader
    result,      \* what into_filesystem_reader returned, or how it aborted
    image,       \* the description the stream under parse was built from
    reader,      \* the SquashfsReader: io (the stream), start, pos
    ppc,         \* position of inner_from_reader: the step it is about to take
    sq,          \* the locals of inner_from_reader, the fields of the Squashfs
    reads,       \* the sections read from the stream so far, in order
    presult      \* what from_reader returned, or how it aborted

walkVars == <<layout, inodes, root_inode, dir_blocks, wpc, stack, nodes, result>>

parseVars == <<image, reader, ppc, sq, reads, presult>>

vars == <<walkVars, parseVars>>

----------------------------------------------------------------------------
(* Bounds *)

\* Depth of nested extract_dir calls at which the thread's stack is exhausted.
MaxDepth == 5

----------------------------------------------------------------------------
(* Byte strings *)

RECURSIVE LE(_, _)
\* The w bytes of n, least significant first.
LE(n, w) ==
    IF w = 0 THEN <<>> ELSE <<n % 256>> \o LE(n \div 256, w - 1)

RECURSIVE Uint(_, _, _)
\* The little-endian value of the w bytes of b from index off + 1.
Uint(b, off, w) ==
    IF w = 0 THEN 0 ELSE b[off + 1] + 256 * Uint(b, off + 1, w - 1)

\* A signed 16-bit value as its two's complement.
I16Bits(n) == IF n < 0 THEN n + 65536 ELSE n

\* The two bytes at off + 1 read as a signed 16-bit value.
Int16(b, off) ==
    LET u == Uint(b, off, 2) IN IF u >= 32768 THEN u - 65536 ELSE u

\* b without its first n bytes.
Drop(b, n) == SubSeq(b, n + 1, Len(b))

\* The first n bytes of b.
Take(b, n) == SubSeq(b, 1, n)

RECURSIVE Flatten(_)
Flatten(ss) == IF ss = <<>> THEN <<>> ELSE Head(ss) \o Flatten(Tail(ss))

----------------------------------------------------------------------------
(* Inode and directory-entry types *)

InodeId ==
    [ BasicDirectory |-> 1, BasicFile |-> 2, BasicSymlink |-> 3,
      BasicBlockDevice |-> 4, BasicCharacterDevice |-> 5, BasicFifo |-> 6,
      BasicSocket |-> 7, ExtendedDirectory |-> 8, ExtendedFile |-> 9,
      ExtendedSymlink |-> 10, ExtendedBlockDevice |-> 11,
      ExtendedCharacterDevice |-> 12, ExtendedFifo |-> 13,
      ExtendedSocket |-> 14 ]

InodeIds == 1..14

\* InodeInner::BasicDirectory(_) | InodeInner::ExtendedDirectory(_)
IsDirInode(inode) ==
    inode.id \in {InodeId.BasicDirectory, InodeId.ExtendedDirectory}

----------------------------------------------------------------------------
(* Directory table records (crate::dir), by the on-disk layout:             *)
(*   Dir      {count:u32, start:u32, inode_num:u32} and count + 1 entries   *)
(*   DirEntry {offset:u16, inode_offset:i16, t:u16, name_size:u16,          *)
(*             name:u8[name_size + 1]}                                      *)

RECURSIVE ReadEntries(_, _)
\* n DirEntry records from the front of b: the entries and the bytes left,
\* or a failure on a short read or an unknown type tag.
ReadEntries(b, n) ==
    IF n = 0 THEN [ok |-> TRUE, entries |-> <<>>, rest |-> b]
    ELSE IF Len(b) < 8 THEN [ok |-> FALSE]
    ELSE
        LET name_size == Uint(b, 6, 2)
            t == Uint(b, 4, 2)
        IN  IF t \notin InodeIds \/ Len(b) < 8 + name_size + 1
            THEN [ok |-> FALSE]
            ELSE
                LET e == [ offset |-> Uint(b, 0, 2),
                           inode_offset |-> Int16(b, 2),
                           t |-> t,
                           name_size |-> name_size,
                           name |-> SubSeq(b, 9, 8 + name_size + 1) ]
                    more == ReadEntries(Drop(b, 8 + name_size + 1), n - 1)
                IN  IF more.ok
                    THEN [ ok |-> TRUE, entries |-> <<e>> \o more.entries,
                           rest |-> more.rest ]
                    ELSE [ok |-> FALSE]

\* Dir::from_bytes: one Dir from the front of b, and the bytes left.
DirFromBytes(b) ==
    IF Len(b) < 12 THEN [ok |-> FALSE]
    ELSE
        LET es == ReadEntries(Drop(b, 12), Uint(b, 0, 4) + 1)
        IN  IF es.ok
            THEN [ ok |-> TRUE,
                   dir |-> [ count |-> Uint(b, 0, 4),
                             start |-> Uint(b, 4, 4),
                             inode_num |-> Uint(b, 8, 4),
                             dir_entries |-> es.entries ],
                   rest |-> es.rest ]
            ELSE [ok |-> FALSE]

\* DirEntry::name: the name bytes as the string they spell.
EntryName(entry) == entry.name

RECURSIVE ParseDirs(_)
\* The loop of dir_from_index: Dir records until no byte is left.
ParseDirs(bytes) ==
    IF bytes = <<>> THEN [ok |-> TRUE, dirs |-> <<>>]
    ELSE
        LET one == DirFromBytes(bytes)
        IN  IF ~one.ok THEN [ok |-> FALSE]
            ELSE
                LET more == ParseDirs(one.rest)
                IN  IF more.ok
                    THEN [ok |-> TRUE, dirs |-> <<one.dir>> \o more.dirs]
                    ELSE [ok |-> FALSE]

RECURSIVE BlocksFrom(_, _)
\* The bytes of the blocks of dbs recorded at or after block_index, in
\* stored order.
BlocksFrom(dbs, block_index) ==
    IF dbs = <<>> THEN <<>>
    ELSE (IF Head(dbs)[1] >= block_index THEN Head(dbs)[2] ELSE <<>>)
             \o BlocksFrom(Tail(dbs), block_index)

\* dir_from_index parsing file_size bytes, the three bytes that are not
\* on disk included.
dir_from_indexWholeSize(dbs, block_index, file_size, block_offset) ==
    IF file_size < 4 THEN [kind |-> "None"]
    ELSE
        LET block == BlocksFrom(dbs, block_index)
        IN  IF block_offset > Len(block)
                \/ file_size > Len(block) - block_offset
            THEN [kind |-> "Panic", err |-> "slice index out of range"]
            ELSE
                LET p == ParseDirs(Take(Drop(block, block_offset), file_size))
                IN  IF p.ok THEN [kind |-> "Some", dirs |-> p.dirs]
                    ELSE [kind |-> "Err", err |-> "Deku"]

\* Squashfs::dir_from_index: None for an empty directory, Some(dirs), an
\* error of the record parser, or a panic of the slice indexing.
dir_from_index(dbs, block_index, file_size, block_offset) ==
    IF file_size < 4 THEN [kind |-> "None"]
    ELSE
        LET block == BlocksFrom(dbs, block_index)
        IN  IF block_offset > Len(block)
                \/ file_size - 3 > Len(block) - block_offset
            THEN [kind |-> "Panic", err |-> "slice index out of range"]
            ELSE
                LET p == ParseDirs(Take(Drop(block, block_offset), file_size - 3))
                IN  IF p.ok THEN [kind |-> "Some", dirs |-> p.dirs]
                    ELSE [kind |-> "Err", err |-> "Deku"]

----------------------------------------------------------------------------
(* The archives walked: a small tree, one entry of which may be forged.    *)
(*                                                                         *)
(*   inode 1  the root directory, listing  a -> 2  and  b -> 4             *)
(*   inode 2  a directory or a file (ty2), listing  c -> 3  and  d -> 5    *)
(*   inode 3  a leaf of type ty3                                           *)
(*   inode 4  an empty directory                                           *)
(*   inode 5  a file                                                       *)
(*                                                                         *)
(* Entry `at` (1: a, 2: b, 3: c; 0: none) has its type and inode number    *)
(* replaced by t and k; abs gives entry c a name that starts with '/'; far *)
(* adds to the root a file entry e of inode number 2^31, one above a       *)
(* header of inode number 2^31 - 1.                                        *)

\* The type a directory entry carries for an inode of type id.
EntryTypeOf(id) == IF id >= 8 THEN id - 7 ELSE id

Layouts ==
    { [ ty2 |-> ty2, ty3 |-> ty3, at |-> 0, t |-> 1, k |-> 1, abs |-> abs,
        far |-> FALSE ] :
        ty2 \in {1, 8, 2}, ty3 \in {2, 3, 4, 5, 6, 7, 9}, abs \in BOOLEAN }
    \cup
    { [ ty2 |-> ty2, ty3 |-> ty3, at |-> at, t |-> t, k |-> k, abs |-> FALSE,
        far |-> FALSE ] :
        ty2 \in {1, 8, 2}, ty3 \in {2, 3, 4, 5, 6, 7, 9},
        at \in 1..3, t \in 1..7, k \in 1..6 }
    \cup
    { [ ty2 |-> ty2, ty3 |-> 2, at |-> 0, t |-> 1, k |-> 1, abs |-> FALSE,
        far |-> TRUE ] : ty2 \in {1, 2} }

\* Entry i of layout L: its name, type and inode number.
LayoutEntry(L, i) ==
    LET base ==
            CASE i = 1 -> [name |-> <<97>>, t |-> EntryTypeOf(L.ty2), k |-> 2]
              [] i = 2 -> [name |-> <<98>>, t |-> 1, k |-> 4]
              [] i = 3 -> [ name |-> IF L.abs THEN <<47, 99>> ELSE <<99>>,
                            t |-> EntryTypeOf(L.ty3), k |-> 3 ]
              [] i = 4 -> [name |-> <<100>>, t |-> 2, k |-> 5]
    IN  IF L.at = i THEN [base EXCEPT !.t = L.t, !.k = L.k] ELSE base

\* The directory listing recorded for inode n: runs of entries, each under
\* a header whose inode_num is the run's base.
LayoutListing(L, n) ==
    CASE n = 1 -> << [base |-> 3, entries |-> <<LayoutEntry(L, 1)>>],
                     [base |-> 4, entries |-> <<LayoutEntry(L, 2)>>] >>
      [] n = 2 -> << [ base |-> 3,
                       entries |-> <<LayoutEntry(L, 3), LayoutEntry(L, 4)>> ] >>
      [] OTHER -> <<>>

EncodeEntry(base, e) ==
    LE(0, 2) \o LE(I16Bits(e.k - base), 2) \o LE(e.t, 2)
        \o LE(Len(e.name) - 1, 2) \o e.name

EncodeRun(run) ==
    LE(Len(run.entries) - 1, 4) \o LE(0, 4) \o LE(run.base, 4)
        \o Flatten([i \in 1..Len(run.entries) |->
                        EncodeEntry(run.base, run.entries[i])])

EncodeListing(runs) == Flatten([i \in 1..Len(runs) |-> EncodeRun(runs[i])])

\* The run of entry e: a header of inode number 2^31 - 1 and one file
\* entry of inode_offset 1.
FarRun ==
    LE(0, 4) \o LE(0, 4) \o LE(2147483647, 4)
        \o LE(0, 2) \o LE(1, 2) \o LE(2, 2) \o LE(0, 2) \o <<101>>

\* The bytes of the root's listing.
RootListing(L) ==
    EncodeListing(LayoutListing(L, 1)) \o (IF L.far THEN FarRun ELSE <<>>)

\* The directory table of L: the listing of inode 2 in a first block, the
\* root's listing two bytes into a second block.
LayoutDirBlocks(L) ==
    LET first == EncodeListing(LayoutListing(L, 2))
    IN  << <<0, first>>, <<2 + Len(first), <<0, 0>> \o RootListing(L)>> >>

LeafInode(n, id) ==
    [ id |-> id, inode_number |-> n,
      block_index |-> 0, file_size |-> 0, block_offset |-> 0 ]

\* The inode table of L.
LayoutInodes(L) ==
    LET first == EncodeListing(LayoutListing(L, 2))
        root == RootListing(L)
    IN  [ n \in 1..5 |->
            CASE n = 1 -> [ id |-> InodeId.BasicDirectory, inode_number |-> 1,
                            block_index |-> 2 + Len(first),
                            file_size |-> Len(root) + 3, block_offset |-> 2 ]
              [] n = 2 -> IF L.ty2 \in {1, 8}
                          THEN [ id |-> L.ty2, inode_number |-> 2,
                                 block_index |-> 0,
                                 file_size |-> Len(first) + 3,
                                 block_offset |-> 0 ]
                          ELSE LeafInode(2, L.ty2)
              [] n = 3 -> LeafInode(3, L.ty3)
              [] n = 4 -> [ id |-> InodeId.BasicDirectory, inode_number |-> 4,
                            block_index |-> 0, file_size |-> 3,
                            block_offset |-> 0 ]
              [] n = 5 -> LeafInode(5, InodeId.BasicFile) ]

----------------------------------------------------------------------------
(* The walk: into_filesystem_reader and extract_dir *)

\* The path separator, and the root path "/".
Slash == 47

RootPath == <<Slash>>

\* PathBuf::push: a name that starts with the separator replaces the path;
\* any other name is appended, after a separator unless the path ends in one.
PathPush(path, name) ==
    IF name[1] = Slash THEN name
    ELSE IF path[Len(path)] = Slash THEN path \o name
    ELSE path \o <<Slash>> \o name

\* A u32 of 2^31 or more is held as the i32 of the same bits, the value
\* less 2^32.
\*
\* Whether `d.inode_num as i32 + entry.inode_offset as i32` leaves the range
\* of i32.
InodeKeyOverflows(inode_num, inode_offset) ==
    \/ inode_offset > 0 /\ inode_num > 2147483647 - inode_offset
    \/ inode_offset < 0 /\ inode_num < (-2147483647 - 1) - inode_offset

\* (d.inode_num as i32 + entry.inode_offset as i32) as u32, where the
\* addition wraps.
InodeKey(inode_num, inode_offset) ==
    IF inode_offset > 0 /\ inode_num > 2147483647 - inode_offset
    THEN ((inode_num + (inode_offset - 2147483647)) - 2147483647) - 2
    ELSE IF inode_offset < 0 /\ inode_num < (-2147483647 - 1) - inode_offset
    THEN ((inode_num + (inode_offset + 2147483647)) + 2147483647) + 2
    ELSE inode_num + inode_offset

\* Squashfs::symlink; the names here are ASCII, which String::from_utf8
\* accepts.
symlink(inode, entry) ==
    IF inode.id = InodeId.BasicSymlink
    THEN [ok |-> TRUE, original |-> entry.name]
    ELSE [ok |-> FALSE, err |-> "FileNotFound"]

\* Squashfs::char_device
char_device(inode) ==
    IF inode.id = InodeId.BasicCharacterDevice
    THEN [ok |-> TRUE]
    ELSE [ok |-> FALSE, err |-> "FileNotFound"]

\* Squashfs::block_device
block_device(inode) ==
    IF inode.id = InodeId.BasicBlockDevice
    THEN [ok |-> TRUE]
    ELSE [ok |-> FALSE, err |-> "FileNotFound"]

Node(path, kind, header) == [path |-> path, kind |-> kind, header |-> header]

\* A call of extract_dir: the directory inode, its path, the Dir records of
\* its listing, and the entry the two nested loops are at.
Frame(dir_inode, path, dirs) ==
    [ inode_number |-> dir_inode.inode_number, path |-> path, dirs |-> dirs,
      di |-> 1, ei |-> 1 ]

\* The head of extract_dir, up to the loops: the frame the call runs in, or
\* the error or panic that ends it.
ExtractDirEnter(dbs, dir_inode, path) ==
    IF ~IsDirInode(dir_inode)
    THEN [kind |-> "Panic", err |-> "extract_dir: not a directory inode"]
    ELSE
        LET r == dir_from_index(dbs, dir_inode.block_index,
                                dir_inode.file_size, dir_inode.block_offset)
        IN  CASE r.kind = "None" ->
                    [kind |-> "Frame", frame |-> Frame(dir_inode, path, <<>>)]
              [] r.kind = "Some" ->
                    [kind |-> "Frame", frame |-> Frame(dir_inode, path, r.dirs)]
              [] OTHER -> r

\* The body of the inner loop of extract_dir for entry `entry` of Dir d,
\* in a directory at `path`: the node pushed and, for a directory entry,
\* the inode and path extract_dir is called with; or an error or a panic.
\* An addition that overflows panics in a build with overflow checks and
\* wraps in one without.
ExtractEntry(inos, d, entry, path, overflow_checks) ==
    LET inode_key == InodeKey(d.inode_num, entry.inode_offset)
    IN  IF overflow_checks
               /\ InodeKeyOverflows(d.inode_num, entry.inode_offset)
        THEN [kind |-> "Panic", err |-> "attempt to add with overflow"]
        ELSE IF inode_key \notin DOMAIN inos
        THEN [kind |-> "Panic", err |-> "inodes: no entry for key"]
        ELSE
            LET found_inode == inos[inode_key]
                header == found_inode.inode_number
                new_path == PathPush(path, EntryName(entry))
            IN  CASE entry.t \in {InodeId.BasicDirectory,
                                  InodeId.ExtendedDirectory} ->
                        [ kind |-> "Recurse",
                          node |-> Node(new_path, "Dir", header),
                          inode |-> found_inode, path |-> new_path ]
                  [] entry.t = InodeId.BasicFile ->
                        IF found_inode.id \in {InodeId.BasicFile,
                                               InodeId.ExtendedFile}
                        THEN [ kind |-> "Node",
                               node |-> Node(new_path, "File", header) ]
                        ELSE [kind |-> "Panic", err |-> "todo!()"]
                  [] entry.t = InodeId.BasicSymlink ->
                        LET r == symlink(found_inode, entry)
                        IN  IF r.ok
                            THEN [ kind |-> "Node",
                                   node |-> Node(new_path, "Symlink", header) ]
                            ELSE [kind |-> "Err", err |-> r.err]
                  [] entry.t = InodeId.BasicCharacterDevice ->
                        LET r == char_device(found_inode)
                        IN  IF r.ok
                            THEN [ kind |-> "Node",
                                   node |-> Node(new_path, "CharacterDevice",
                                                 header) ]
                            ELSE [kind |-> "Err", err |-> r.err]
                  [] entry.t = InodeId.BasicBlockDevice ->
                        LET r == block_device(found_inode)
                        IN  IF r.ok
                            THEN [ kind |-> "Node",
                                   node |-> Node(new_path, "BlockDevice",
                                                 header) ]
                            ELSE [kind |-> "Err", err |-> r.err]
                  [] OTHER ->
                        [kind |-> "Panic", err |-> "panic!(entry)"]

\* The innermost call of extract_dir, and whether its loops have an entry
\* left to visit.
Top == stack[Len(stack)]

HasEntry(f) == f.di <= Len(f.dirs)

CurDir == Top.dirs[Top.di]

CurEntry == CurDir.dir_entries[Top.ei]

\* The frame with its loops moved past the current entry.
Advance(f) ==
    IF f.ei < Len(f.dirs[f.di].dir_entries)
    THEN [f EXCEPT !.ei = f.ei + 1]
    ELSE [f EXCEPT !.di = f.di + 1, !.ei = 1]

\* The walk ends: with Err(e) returned through every `?`, or with a panic.
Fail(r) ==
    /\ wpc' = "done"
    /\ stack' = <<>>
    /\ result' = [kind |-> r.kind, err |-> r.err]

\* No stream is being parsed.
ParseIdle ==
    /\ image = <<>>
    /\ reader = <<>>
    /\ ppc = "done"
    /\ sq = <<>>
    /\ reads = <<>>
    /\ presult = [kind |-> "None"]

WalkInit ==
    /\ ParseIdle
    /\ layout \in Layouts
    /\ inodes = LayoutInodes(layout)
    /\ root_inode = LayoutInodes(layout)[1]
    /\ dir_blocks = LayoutDirBlocks(layout)
    /\ wpc = "idle"
    /\ stack = <<>>
    /\ nodes = <<>>
    /\ result = [kind |-> "None"]

\* into_filesystem_reader up to the first entry: nodes is created and
\* extract_dir is called on the root inode with path "/".
IntoFilesystemReader ==
    /\ wpc = "idle"
    /\ nodes' = <<>>
    /\ LET r == ExtractDirEnter(dir_blocks, root_inode, RootPath)
       IN  IF r.kind = "Frame"
           THEN /\ stack' = <<r.frame>>
                /\ wpc' = "walking"
                /\ UNCHANGED result
           ELSE Fail(r)
    /\ UNCHANGED <<layout, inodes, root_inode, dir_blocks, parseVars>>

\* One turn of the inner loop of the innermost extract_dir call.
VisitEntry ==
    /\ wpc = "walking"
    /\ HasEntry(Top)
    /\ \E overflow_checks \in BOOLEAN :
       LET r == ExtractEntry(inodes, CurDir, CurEntry, Top.path,
                             overflow_checks)
           here == [stack EXCEPT ![Len(stack)] = Advance(Top)]
       IN  CASE r.kind = "Node" ->
                    /\ nodes' = Append(nodes, r.node)
                    /\ stack' = here
                    /\ UNCHANGED <<wpc, result>>
             [] r.kind = "Recurse" ->
                    /\ nodes' = Append(nodes, r.node)
                    /\ IF Len(stack) >= MaxDepth
                       THEN Fail([kind |-> "Panic", err |-> "stack overflow"])
                       ELSE LET c == ExtractDirEnter(dir_blocks, r.inode, r.path)
                            IN  IF c.kind = "Frame"
                                THEN /\ stack' = Append(here, c.frame)
                                     /\ UNCHANGED <<wpc, result>>
                                ELSE Fail(c)
             [] OTHER ->
                    /\ Fail(r)
                    /\ UNCHANGED nodes
    /\ UNCHANGED <<layout, inodes, root_inode, dir_blocks, parseVars>>

\* The loops of the innermost call are over: it returns Ok(()), and when it
\* is the root's call into_filesystem_reader returns the FilesystemReader.
ExtractDirReturn ==
    /\ wpc = "walking"
    /\ ~HasEntry(Top)
    /\ stack' = SubSeq(stack, 1, Len(stack) - 1)
    /\ IF Len(stack) = 1
       THEN /\ wpc' = "done"
            /\ result' = [kind |-> "Ok", nodes |-> nodes]
       ELSE UNCHANGED <<wpc, result>>
    /\ UNCHANGED <<layout, inodes, root_inode, dir_blocks, nodes,
                   parseVars>>

WalkNext == IntoFilesystemReader \/ VisitEntry \/ ExtractDirReturn

SpecWalk == WalkInit /\ [][WalkNext]_vars

----------------------------------------------------------------------------
(* Claims about the walk (SpecWalk) *)

\* The inode the current entry names, when the inode map holds it.
CurKey == InodeKey(CurDir.inode_num, CurEntry.inode_offset)

AtEntry == wpc = "walking" /\ HasEntry(Top)

\* An entry type and an inode type that denote the same kind of object.
Consistent(t, id) == EntryTypeOf(t) = EntryTypeOf(id)

\* The node kind the format gives an entry type.
KindOfType(t) ==
    CASE EntryTypeOf(t) = 1 -> "Dir"
      [] EntryTypeOf(t) = 2 -> "File"
      [] EntryTypeOf(t) = 3 -> "Symlink"
      [] EntryTypeOf(t) = 4 -> "BlockDevice"
      [] EntryTypeOf(t) = 5 -> "CharacterDevice"
      [] EntryTypeOf(t) = 6 -> "Fifo"
      [] EntryTypeOf(t) = 7 -> "Socket"

\* C3: a directory inode that is reachable from itself is detected: no
\* inode is walked into while a call of extract_dir on it is still active,
\* and the walk never ends by exhausting the stack.
C3_CyclicDirectoryDetected ==
    /\ \A i, j \in 1..Len(stack) :
           i < j => stack[i].inode_number # stack[j].inode_number
    /\ result.kind = "Panic" => result.err # "stack overflow"

\* C4: visiting an entry whose inode number is not in the inode map makes
\* into_filesystem_reader return an error value; it neither aborts nor
\* returns a node list.
C4_DanglingInodeIsError ==
    [][(AtEntry /\ CurKey \notin DOMAIN inodes) => result'.kind = "Err"]_vars

\* C5: every entry the walk reaches, whose inode exists with a type
\* consistent with the entry's, emits exactly one node, of the kind of the
\* entry type; Fifo and Socket entries included.
C5_EveryEntryEmitsItsNode ==
    [][(/\ AtEntry
        /\ CurKey \in DOMAIN inodes
        /\ Consistent(CurEntry.t, inodes[CurKey].id))
       => /\ Len(nodes') = Len(nodes) + 1
          /\ SubSeq(nodes', 1, Len(nodes)) = nodes
          /\ nodes'[Len(nodes')].kind = KindOfType(CurEntry.t)]_vars

\* C6: an entry whose type disagrees with the type of the inode it resolves
\* to makes the walk return an error: no node is pushed for it and the walk
\* does not abort.
C6_TypeMismatchIsError ==
    [][(/\ AtEntry
        /\ CurKey \in DOMAIN inodes
        /\ ~Consistent(CurEntry.t, inodes[CurKey].id))
       => /\ result'.kind = "Err"
          /\ nodes' = nodes]_vars

\* The path the format gives an entry: the parent's path, a separator
\* unless the parent is the root, and the entry name.
JoinedPath(parent, name) ==
    IF parent = RootPath THEN parent \o name ELSE parent \o <<Slash>> \o name

RECURSIVE PreOrderOf(_, _, _)
\* The pre-order listing of the tree of layout L below inode n at `path`:
\* each entry in on-disk order, a directory followed by its subtree.
PreOrderOf(L, n, path) ==
    LET es == Flatten([i \in 1..Len(LayoutListing(L, n)) |->
                           LayoutListing(L, n)[i].entries])
        Sub(e) ==
            <<Node(JoinedPath(path, e.name), KindOfType(e.t), e.k)>>
                \o (IF EntryTypeOf(e.t) = 1
                    THEN PreOrderOf(L, e.k, JoinedPath(path, e.name))
                    ELSE <<>>)
    IN  Flatten([i \in 1..Len(es) |-> Sub(es[i])])

\* C7: the nodes returned are the pre-order listing of the tree from the
\* root, siblings in on-disk order, each path its parent's path with the
\* entry name appended.
C7_PreOrderWithPaths ==
    result.kind = "Ok" => result.nodes = PreOrderOf(layout, 1, RootPath)

\* The listing of C7 with each path composed as PathBuf::push composes it.
RECURSIVE PushedPreOrderOf(_, _, _)
PushedPreOrderOf(L, n, path) ==
    LET es == Flatten([i \in 1..Len(LayoutListing(L, n)) |->
                           LayoutListing(L, n)[i].entries])
        Sub(e) ==
            <<Node(PathPush(path, e.name), KindOfType(e.t), e.k)>>
                \o (IF EntryTypeOf(e.t) = 1
                    THEN PushedPreOrderOf(L, e.k, PathPush(path, e.name))
                    ELSE <<>>)
    IN  Flatten([i \in 1..Len(es) |-> Sub(es[i])])

\* The order of C7 alone: the nodes returned are the pre-order listing.
PreOrderWithPushedPaths ==
    result.kind = "Ok" => result.nodes = PushedPreOrderOf(layout, 1, RootPath)

\* The bytes a directory entry and a Dir record take in the table.
EntryBytes(e) ==
    LE(e.offset, 2) \o LE(I16Bits(e.inode_offset), 2) \o LE(e.t, 2)
        \o LE(e.name_size, 2) \o e.name

DirBytes(d) ==
    LE(d.count, 4) \o LE(d.start, 4) \o LE(d.inode_num, 4)
        \o Flatten([i \in 1..Len(d.dir_entries) |-> EntryBytes(d.dir_entries[i])])

\* The blocks recorded at or after block_index, concatenated in stored
\* order.
SelectedBlocks(dbs, block_index) ==
    LET sel == SelectSeq(dbs, LAMBDA b : b[1] >= block_index)
    IN  Flatten([i \in 1..Len(sel) |-> sel[i][2]])

\* How far the queries below move off the fields the directory inodes hold.
MaxSkew == 2

\* The directory inodes of the archive, and the queries tried: the fields
\* of each, exact and moved by up to MaxSkew.
DirInodeNumbers == {n \in DOMAIN inodes : IsDirInode(inodes[n])}

DirQueries ==
    UNION { { <<bi, fs, bo>> :
                bi \in {inodes[n].block_index, inodes[n].block_index + 1},
                fs \in { f \in (inodes[n].file_size - MaxSkew)
                                  ..(inodes[n].file_size + MaxSkew) : f >= 0 },
                bo \in inodes[n].block_offset
                           ..(inodes[n].block_offset + MaxSkew) }
            : n \in DirInodeNumbers }

\* What C12 says of one answer r of dir_from_index.
DirFromIndexAnswer(dbs, block_index, file_size, block_offset, r) ==
    LET block == SelectedBlocks(dbs, block_index)
        first == block_offset + 1
        last == block_offset + file_size - 3
    IN  /\ file_size < 4 <=> r.kind = "None"
        /\ r.kind = "Panic" <=> (file_size >= 4 /\ last > Len(block))
        /\ r.kind = "Some" =>
               /\ Flatten([i \in 1..Len(r.dirs) |-> DirBytes(r.dirs[i])])
                      = SubSeq(block, first, last)
               /\ \A i \in 1..Len(r.dirs) :
                      Len(r.dirs[i].dir_entries) = r.dirs[i].count + 1

\* C12: dir_from_index returns None when file_size < 4; otherwise it takes
\* the blocks recorded at or after block_index in stored order, skips
\* block_offset bytes and parses exactly the next file_size - 3 bytes: the
\* records it returns are those bytes, all of them and no byte more. So it
\* is for every query, and for the listing of every extract_dir call.
C12_DirFromIndexRange ==
    /\ \A q \in DirQueries :
           DirFromIndexAnswer(dir_blocks, q[1], q[2], q[3],
                              dir_from_index(dir_blocks, q[1], q[2], q[3]))
    /\ \A i \in 1..Len(stack) :
           LET inode == inodes[stack[i].inode_number]
           IN  DirFromIndexAnswer(
                   dir_blocks, inode.block_index, inode.file_size,
                   inode.block_offset,
                   IF stack[i].dirs = <<>> /\ inode.file_size < 4
                   THEN [kind |-> "None"]
                   ELSE [kind |-> "Some", dirs |-> stack[i].dirs])

\* C12's case: the root's call, whose listing starts two bytes into the
\* second block, has reached the call for inode 2, whose listing is the
\* head of both blocks; each holds the records of its range.
C12_Witness ==
    /\ Len(stack) >= 2
    /\ stack[1].inode_number = 1
    /\ Len(stack[1].dirs) = 2
    /\ stack[2].inode_number = 2
    /\ Len(stack[2].dirs) = 1
    /\ inodes[1].block_index > 0
    /\ inodes[1].block_offset > 0

\* The two 16-bit halves of a u32, high then low.
U32Halves(x) == <<(x \div 65536) % 65536, x % 65536>>

\* The halves of inode_num + inode_offset, added half by half with the
\* carry, inode_offset sign-extended.
SumHalves(inode_num, inode_offset) ==
    LET a == U32Halves(inode_num)
        lo == a[2] + (inode_offset % 65536)
        hi == a[1] + (IF inode_offset < 0 THEN 65535 ELSE 0) + (lo \div 65536)
    IN  <<hi % 65536, lo % 65536>>

\* inode_num + inode_offset lies in [0, 2^32).
SumInU32(inode_num, inode_offset) ==
    /\ ~(inode_num >= 0 /\ inode_offset < 0 /\ inode_num < -inode_offset)
    /\ ~(inode_num < 0 /\ inode_offset > 0 /\ inode_num >= -inode_offset)

\* C15: for an entry whose header.inode_number + inode_offset lies in
\* [0, 2^32), the key the walker looks up is that sum: computing it does
\* not overflow, and the walk does not abort on the addition.
C15_InodeKeyIsSum ==
    /\ result.kind = "Panic" => result.err # "attempt to add with overflow"
    /\ (AtEntry /\ SumInU32(CurDir.inode_num, CurEntry.inode_offset)) =>
           /\ ~InodeKeyOverflows(CurDir.inode_num, CurEntry.inode_offset)
           /\ U32Halves(CurKey)
                  = SumHalves(CurDir.inode_num, CurEntry.inode_offset)

----------------------------------------------------------------------------
(* The stream: SquashfsReader (src/src/reader.rs) *)

\* SuperBlock::NOT_SET, 0xffff_ffff_ffff_ffff, held as a value above every
\* offset of the streams here.
NOT_SET == 1073741823

\* A u64 field: the all-ones pattern is NOT_SET.
Uint64(b, off) ==
    IF \A i \in 1..8 : b[off + i] = 255 THEN NOT_SET ELSE Uint(b, off, 8)

\* stream_position giving the position of the underlying stream.
stream_positionUnderlying(rd) == rd.pos

\* SquashfsReader::stream_position
stream_position(rd) == rd.pos - rd.start

\* SquashfsReader::addr
addr(rd, seek) == rd.start + seek

\* SquashfsReader::seek_from_start
seek_from_start(rd, seek) == [rd EXCEPT !.pos = addr(rd, seek)]

\* Read::read_exact: the next n bytes, or an Io error when the stream ends
\* before them.
read_exact(rd, n) ==
    IF n > 0 /\ rd.pos + n > Len(rd.io)
    THEN [ok |-> FALSE, err |-> "Io"]
    ELSE [ ok |-> TRUE, bytes |-> SubSeq(rd.io, rd.pos + 1, rd.pos + n),
           rd |-> [rd EXCEPT !.pos = rd.pos + n] ]

RECURSIVE RunLengthDecode(_)
\* The codecs are external to the crate; their stand-in here decodes pairs
\* <<count, byte>> and fails on an odd length.
RunLengthDecode(b) ==
    IF b = <<>> THEN [ok |-> TRUE, bytes |-> <<>>]
    ELSE IF Len(b) = 1 THEN [ok |-> FALSE]
    ELSE
        LET more == RunLengthDecode(Drop(b, 2))
        IN  IF more.ok
            THEN [ ok |-> TRUE,
                   bytes |-> [i \in 1..b[1] |-> b[2]] \o more.bytes ]
            ELSE [ok |-> FALSE]

\* metadata::read_block: a u16 header h, then h & 0x7fff payload bytes,
\* stored as they are when bit 15 of h is set and compressed otherwise.
read_block(rd, superblock) ==
    LET h == read_exact(rd, 2)
    IN  IF ~h.ok THEN h
        ELSE
            LET len == Uint(h.bytes, 0, 2) % 32768
                stored == Uint(h.bytes, 0, 2) >= 32768
                body == read_exact(h.rd, len)
            IN  IF ~body.ok THEN body
                ELSE IF stored THEN body
                ELSE
                    LET out == RunLengthDecode(body.bytes)
                    IN  IF out.ok
                        THEN [ok |-> TRUE, bytes |-> out.bytes, rd |-> body.rd]
                        ELSE [ok |-> FALSE, err |-> "Decompress"]

----------------------------------------------------------------------------
(* The superblock (src/src/squashfs.rs) *)

\* SuperBlock::MAGIC, b"hsqs"
MAGIC == <<104, 115, 113, 115>>

\* Compressor: None, Gzip, Lzma, Lzo, Xz, Lz4, Zstd
Compressor ==
    [ None |-> 0, Gzip |-> 1, Lzma |-> 2, Lzo |-> 3, Xz |-> 4, Lz4 |-> 5,
      Zstd |-> 6 ]

\* The fields of the 96 bytes of a superblock, in order.
SuperBlockFields(b) ==
    [ magic |-> SubSeq(b, 1, 4),
      inode_count |-> Uint(b, 4, 4),
      mod_time |-> Uint(b, 8, 4),
      block_size |-> Uint(b, 12, 4),
      frag_count |-> Uint(b, 16, 4),
      compressor |-> Uint(b, 20, 2),
      block_log |-> Uint(b, 22, 2),
      flags |-> Uint(b, 24, 2),
      id_count |-> Uint(b, 26, 2),
      version_major |-> Uint(b, 28, 2),
      version_minor |-> Uint(b, 30, 2),
      root_inode |-> Uint64(b, 32),
      bytes_used |-> Uint64(b, 40),
      id_table |-> Uint64(b, 48),
      xattr_table |-> Uint64(b, 56),
      inode_table |-> Uint64(b, 64),
      dir_table |-> Uint64(b, 72),
      frag_table |-> Uint64(b, 80),
      export_table |-> Uint64(b, 88) ]

\* SuperBlock::from_bytes with the assertion on version_minor left out.
SuperBlockFromBytesAnyMinor(b) ==
    IF SubSeq(b, 1, 4) # MAGIC
    THEN [ok |-> FALSE, err |-> "Deku: magic"]
    ELSE IF Uint(b, 20, 2) \notin 0..6
    THEN [ok |-> FALSE, err |-> "Deku: compressor"]
    ELSE IF Uint(b, 28, 2) # 4
    THEN [ok |-> FALSE, err |-> "Deku: version_major"]
    ELSE [ok |-> TRUE, superblock |-> SuperBlockFields(b)]

\* SuperBlock::from_bytes: the fields in order, with the assertions on
\* magic, version_major and version_minor and the check of the compressor
\* tag.
SuperBlockFromBytes(b) ==
    IF SubSeq(b, 1, 4) # MAGIC
    THEN [ok |-> FALSE, err |-> "Deku: magic"]
    ELSE IF Uint(b, 20, 2) \notin 0..6
    THEN [ok |-> FALSE, err |-> "Deku: compressor"]
    ELSE IF Uint(b, 28, 2) # 4
    THEN [ok |-> FALSE, err |-> "Deku: version_major"]
    ELSE IF Uint(b, 30, 2) # 0
    THEN [ok |-> FALSE, err |-> "Deku: version_minor"]
    ELSE [ok |-> TRUE, superblock |-> SuperBlockFields(b)]

\* self.flags & bit != 0, for bit a power of two
FlagSet(superblock, bit) == (superblock.flags \div bit) % 2 = 1

\* SuperBlock::nfs_export_table_exists (Flags::NFSExportTableExists)
nfs_export_table_exists(superblock) == FlagSet(superblock, 128)

\* SuperBlock::compressor_options_are_present
compressor_options_are_present(superblock) == FlagSet(superblock, 1024)

\* SuperBlock::compression_options_size
compression_options_size(superblock) ==
    IF compressor_options_are_present(superblock)
    THEN [ kind |-> "Some",
           size |-> CASE superblock.compressor = Compressor.Lzma -> 0
                      [] superblock.compressor = Compressor.Gzip -> 8
                      [] superblock.compressor = Compressor.Lzo -> 8
                      [] superblock.compressor = Compressor.Xz -> 8
                      [] superblock.compressor = Compressor.Lz4 -> 8
                      [] superblock.compressor = Compressor.Zstd -> 4
                      [] superblock.compressor = Compressor.None -> 0 ]
    ELSE [kind |-> "None"]

\* CompressionOptions::read: the options of the compressor, of the size
\* compression_options_size gives; bytes after them are left over.
CompressionOptionsRead(bytes, superblock) ==
    LET size == compression_options_size(superblock).size
    IN  IF Len(bytes) < size THEN [ok |-> FALSE, err |-> "Deku: options"]
        ELSE [ok |-> TRUE, options |-> Take(bytes, size)]

----------------------------------------------------------------------------
(* Inodes (crate::inode), by the on-disk layout: a 16-byte header           *)
(*   {type:u16, permissions:u16, uid:u16, gid:u16, mtime:u32,               *)
(*    inode_number:u32}                                                     *)
(* and a body by type. Only the basic variants are laid out here; no        *)
(* stream of this model holds an extended one.                              *)

\* The number of block sizes a basic file inode lists.
FileBlocks(b, block_size) ==
    IF \A i \in 1..4 : b[20 + i] = 255
    THEN (Uint(b, 28, 4) + block_size - 1) \div block_size
    ELSE Uint(b, 28, 4) \div block_size

\* The length of the inode at the front of b, given its first 16 bytes and
\* the fixed part of its body; 0 when it cannot be told.
InodeLength(b, block_size) ==
    LET id == Uint(b, 0, 2)
    IN  CASE id = 1 -> 32
          [] id = 2 -> IF Len(b) < 32 \/ block_size = 0 THEN 0
                       ELSE 32 + 4 * FileBlocks(b, block_size)
          [] id = 3 -> IF Len(b) < 24 THEN 0 ELSE 24 + Uint(b, 20, 4)
          [] id \in {4, 5} -> 24
          [] id \in {6, 7} -> 20
          [] OTHER -> 0

\* Inode::read: the inode at the front of b and the bytes after it.
InodeRead(b, block_size, block_log) ==
    IF Len(b) < 16 THEN [ok |-> FALSE, err |-> "Deku: inode"]
    ELSE
        LET n == InodeLength(b, block_size)
        IN  IF n = 0 \/ Len(b) < n THEN [ok |-> FALSE, err |-> "Deku: inode"]
            ELSE [ ok |-> TRUE,
                   inode |->
                       [ id |-> Uint(b, 0, 2),
                         inode_number |-> Uint(b, 12, 4),
                         block_index |->
                             IF Uint(b, 0, 2) = 1 THEN Uint(b, 16, 4) ELSE 0,
                         file_size |->
                             IF Uint(b, 0, 2) = 1 THEN Uint(b, 24, 2) ELSE 0,
                         block_offset |->
                             IF Uint(b, 0, 2) = 1 THEN Uint(b, 26, 2) ELSE 0 ],
                   rest |-> Drop(b, n) ]

----------------------------------------------------------------------------
(* The table readers of SquashfsReader (src/src/reader.rs) *)

\* SquashfsReader::data_and_fragments
data_and_fragments(rd, superblock) ==
    LET r == read_exact(seek_from_start(rd, 0), superblock.inode_table)
    IN  IF r.ok THEN [kind |-> "Ok", value |-> r.bytes, rd |-> r.rd]
        ELSE [kind |-> "Err", err |-> r.err]

RECURSIVE BlocksUntilInclusive(_, _, _, _, _)
\* The loop with `<=` for `<`: a block that starts at the bound is read too.
BlocksUntilInclusive(rd, superblock, from, max, acc) ==
    IF ~(stream_position(rd) <= max)
    THEN [ok |-> TRUE, blocks |-> acc, rd |-> rd]
    ELSE
        LET b == read_block(rd, superblock)
        IN  IF ~b.ok THEN b
            ELSE BlocksUntilInclusive(b.rd, superblock, from, max,
                                      Append(acc, <<stream_position(rd) - from,
                                                    b.bytes>>))

RECURSIVE BlocksUntil(_, _, _, _, _)
\* The loop `while self.stream_position()? < max`: one metadata block per
\* turn, each kept with its position relative to `from`.
BlocksUntil(rd, superblock, from, max, acc) ==
    IF ~(stream_position(rd) < max)
    THEN [ok |-> TRUE, blocks |-> acc, rd |-> rd]
    ELSE
        LET b == read_block(rd, superblock)
        IN  IF ~b.ok THEN b
            ELSE BlocksUntil(b.rd, superblock, from, max,
                             Append(acc, <<stream_position(rd) - from,
                                           b.bytes>>))

RECURSIVE DecodeInodes(_, _, _, _)
\* The loop `while !ret_bytes.is_empty()` of inodes: on a failure of
\* Inode::read the loop is left, and what was decoded is returned; the
\* error! line slices 20 bytes of what remains when the event is enabled.
DecodeInodes(ret_bytes, superblock, ret_vec, error_enabled) ==
    IF ret_bytes = <<>> THEN [kind |-> "Ok", value |-> ret_vec]
    ELSE
        LET r == InodeRead(ret_bytes, superblock.block_size,
                           superblock.block_log)
        IN  IF r.ok
            THEN DecodeInodes(r.rest, superblock, Append(ret_vec, r.inode),
                              error_enabled)
            ELSE IF error_enabled /\ Len(ret_bytes) < 20
            THEN [kind |-> "Panic", err |-> "slice index out of range"]
            ELSE [kind |-> "Ok", value |-> ret_vec]

\* SquashfsReader::inodes
ReaderInodes(rd, superblock, error_enabled) ==
    LET at == seek_from_start(rd, superblock.inode_table)
        bs == BlocksUntil(at, superblock, stream_position(at),
                          superblock.dir_table, <<>>)
    IN  IF ~bs.ok THEN [kind |-> "Err", err |-> bs.err]
        ELSE
            LET r == DecodeInodes(
                         Flatten([i \in 1..Len(bs.blocks) |-> bs.blocks[i][2]]),
                         superblock, <<>>, error_enabled)
            IN  IF r.kind = "Ok"
                THEN [kind |-> "Ok", value |-> r.value, rd |-> bs.rd]
                ELSE r

\* SquashfsReader::root_inode
ReaderRootInode(rd, superblock) ==
    LET root_inode_start == superblock.root_inode \div 65536
        root_inode_offset == superblock.root_inode % 65536
        b == read_block(seek_from_start(rd, superblock.inode_table
                                                + root_inode_start),
                        superblock)
    IN  IF ~b.ok THEN [kind |-> "Err", err |-> b.err]
        ELSE IF root_inode_offset > Len(b.bytes)
        THEN [kind |-> "Panic", err |-> "slice index out of range"]
        ELSE
            LET r == InodeRead(Drop(b.bytes, root_inode_offset),
                               superblock.block_size, superblock.block_log)
            IN  IF ~r.ok THEN [kind |-> "Err", err |-> r.err]
                ELSE IF ~IsDirInode(r.inode)
                THEN [kind |-> "Panic", err |-> "expect_dir"]
                ELSE [kind |-> "Ok", value |-> r.inode, rd |-> b.rd]

\* SquashfsReader::metadata_blocks
metadata_blocks(rd, superblock, seek, max) ==
    LET bs == BlocksUntil(seek_from_start(rd, seek), superblock, seek, max,
                          <<>>)
    IN  IF bs.ok THEN [kind |-> "Ok", value |-> bs.blocks, rd |-> bs.rd]
        ELSE [kind |-> "Err", err |-> bs.err]

\* reader.dir_blocks(&superblock, last_dir_position): the metadata blocks
\* from dir_table up to the bound inner_from_reader chose.
ReaderDirBlocks(rd, superblock, last_dir_position) ==
    metadata_blocks(rd, superblock, superblock.dir_table, last_dir_position)

RECURSIVE F32Unit(_, _)
\* The spacing of f32 values around n: 24 significant bits.
F32Unit(n, u) == IF n \div u < 16777216 THEN u ELSE F32Unit(n, 2 * u)

\* n as f32: the nearest value with 24 significant bits, ties to even.
AsF32(n) ==
    LET u == F32Unit(n, 1)
        q == n \div u
        r == n % u
    IN  IF 2 * r > u \/ (2 * r = u /\ q % 2 = 1) THEN (q + 1) * u ELSE q * u

\* (size as f32 / d).ceil() as u64, for d a power of two
CeilDivF32(size, d) == (AsF32(size) + d - 1) \div d

RECURSIVE ReadCount(_, _, _, _)
\* The loop `for _ in 0..count` of metadata_with_count.
ReadCount(rd, superblock, count, all_bytes) ==
    IF count = 0 THEN [ok |-> TRUE, bytes |-> all_bytes, rd |-> rd]
    ELSE
        LET b == read_block(rd, superblock)
        IN  IF ~b.ok THEN b
            ELSE ReadCount(b.rd, superblock, count - 1, all_bytes \o b.bytes)

RECURSIVE DecodeEntries(_, _)
\* The loop `while let Ok(..) = T::from_bytes(..)` over entries of width w.
DecodeEntries(all_bytes, w) ==
    IF Len(all_bytes) < w THEN <<>>
    ELSE <<Take(all_bytes, w)>> \o DecodeEntries(Drop(all_bytes, w), w)

\* SquashfsReader::metadata_with_count, for entries of width w
metadata_with_count(rd, superblock, seek, count, w) ==
    LET r == ReadCount(seek_from_start(rd, seek), superblock, count, <<>>)
    IN  IF ~r.ok THEN [kind |-> "Err", err |-> r.err]
        ELSE [ kind |-> "Ok", value |-> DecodeEntries(r.bytes, w),
               rd |-> r.rd ]

\* SquashfsReader::lookup_table, for entries of width w: the pointer read
\* at `seek`, the entries of the blocks it points to, and block_count, the
\* number of blocks it had metadata_with_count read.
lookup_table(rd, superblock, seek, size, w) ==
    LET buf == read_exact(seek_from_start(rd, seek), 4)
    IN  IF ~buf.ok THEN [kind |-> "Err", err |-> buf.err]
        ELSE
            LET ptr == Uint(buf.bytes, 0, 4)
                block_count == CeilDivF32(size, 8192)
                t == metadata_with_count(buf.rd, superblock, ptr,
                                         block_count, w)
            IN  IF t.kind = "Ok"
                THEN [ kind |-> "Ok",
                       value |-> [ kind |-> "Some", ptr |-> ptr,
                                   table |-> t.value,
                                   block_count |-> block_count ],
                       rd |-> t.rd ]
                ELSE t

\* FRAGMENT_SIZE, and the widths of Export and Id
FRAGMENT_SIZE == 16

EXPORT_SIZE == 8

ID_SIZE == 4

\* SquashfsReader::fragments
fragments(rd, superblock) ==
    IF superblock.frag_count = 0
    THEN [kind |-> "Ok", value |-> [kind |-> "None"], rd |-> rd]
    ELSE lookup_table(rd, superblock, superblock.frag_table,
                      superblock.frag_count * FRAGMENT_SIZE, FRAGMENT_SIZE)

\* SquashfsReader::export
export(rd, superblock) ==
    IF nfs_export_table_exists(superblock)
    THEN lookup_table(rd, superblock, superblock.export_table,
                      CeilDivF32(superblock.inode_count, 1024), EXPORT_SIZE)
    ELSE [kind |-> "Ok", value |-> [kind |-> "None"], rd |-> rd]

\* SquashfsReader::id
id(rd, superblock) ==
    IF nfs_export_table_exists(superblock)
    THEN lookup_table(rd, superblock, superblock.id_table,
                      superblock.id_count, ID_SIZE)
    ELSE [kind |-> "Ok", value |-> [kind |-> "None"], rd |-> rd]

----------------------------------------------------------------------------
(* The streams parsed: `start` bytes of a container, then an image of a     *)
(* root directory (inode 1) that holds one fifo (inode 2):                  *)
(*   superblock | compression options | data | inode table | directory      *)
(*   table | fragment table | export table | id table                       *)
(* A lookup table is its metadata blocks followed by the pointer to them; a *)
(* table that is absent has the pointer NOT_SET in the superblock. The      *)
(* images of LargeImages count more entries than one block holds; their     *)
(* tables are two blocks, cut short to a few entries. ptr_high is the fifth *)
(* byte of every table's pointer.                                           *)

\* An uncompressed metadata block, and one compressed by the stand-in codec.
StoredBlock(bytes) == LE(Len(bytes) + 32768, 2) \o bytes

PackedBlock(bytes) ==
    LE(2 * Len(bytes), 2) \o Flatten([i \in 1..Len(bytes) |-> <<1, bytes[i]>>])

EncodeU64(v) == IF v = NOT_SET THEN [i \in 1..8 |-> 255] ELSE LE(v, 8)

EncodeInodeHeader(t, n) ==
    LE(t, 2) \o LE(493, 2) \o LE(0, 2) \o LE(0, 2) \o LE(0, 4) \o LE(n, 4)

LargeImages ==
    [ magic : {MAGIC},
      version : {<<4, 0>>},
      block_log : {12},
      compressor : {0},
      nfs : BOOLEAN,
      copt : {FALSE},
      frag_count : {0, 1},
      id_count : {2, 2049},
      tail : {"none"},
      start : {0, 3},
      inode_count : {2, 1025},
      ptr_high : {0, 1} ]

Images ==
    [ magic : {MAGIC, <<88, 88, 88, 88>>},
      version : {<<4, 0>>, <<3, 0>>, <<4, 1>>},
      block_log : {12, 17},
      compressor : {0, 1, 6},
      nfs : BOOLEAN,
      copt : BOOLEAN,
      frag_count : {0, 1},
      id_count : {0, 2},
      tail : {"none", "partial", "junk"},
      start : {0, 3},
      inode_count : {2},
      ptr_high : {0} ]
    \cup LargeImages

\* The root's listing: one entry, the fifo.
ImageListing ==
    EncodeListing(<< [ base |-> 2,
                       entries |-> <<[name |-> <<102>>, t |-> 6, k |-> 2]>> ] >>)

\* The bytes of the inode table of image I, before framing.
ImageInodes(I) ==
    EncodeInodeHeader(1, 1) \o LE(0, 4) \o LE(2, 4)
        \o LE(Len(ImageListing) + 3, 2) \o LE(0, 2) \o LE(3, 4)
        \o EncodeInodeHeader(6, 2) \o LE(1, 4)
        \o (CASE I.tail = "none" -> <<>>
              [] I.tail = "partial" -> Take(EncodeInodeHeader(6, 3), 5)
              [] I.tail = "junk" -> [i \in 1..24 |-> 0])

\* The stream of image I.
ImageBytes(I) ==
    LET flags == (IF I.nfs THEN 128 ELSE 0) + (IF I.copt THEN 1024 ELSE 0)
        options ==
            IF I.compressor # 0 /\ I.copt
            THEN StoredBlock([i \in 1..(IF I.compressor = 6 THEN 4 ELSE 8)
                                  |-> 9])
            ELSE <<>>
        data == <<1, 2, 3, 4>>
        inode_table == 96 + Len(options) + Len(data)
        inode_blocks == StoredBlock(ImageInodes(I))
        dir_table == inode_table + Len(inode_blocks)
        dir_blocks_ ==
            IF I.compressor # 0 THEN PackedBlock(ImageListing)
            ELSE StoredBlock(ImageListing)
        frag_at == dir_table + Len(dir_blocks_)
        pointer(at) == LE(at, 4) \o LE(I.ptr_high, 4)
        frag ==
            IF I.frag_count = 0 THEN <<>>
            ELSE StoredBlock(Flatten([i \in 1..I.frag_count |->
                                          LE(96, 8) \o LE(4, 4) \o LE(0, 4)]))
                     \o pointer(frag_at)
        export_at == frag_at + Len(frag)
        export_ ==
            IF ~I.nfs THEN <<>>
            ELSE StoredBlock(LE(0, 8) \o LE(32, 8))
                     \o (IF I.inode_count > 1024 THEN StoredBlock(LE(64, 8))
                         ELSE <<>>)
                     \o pointer(export_at)
        id_at == export_at + Len(export_)
        id_ ==
            IF I.id_count = 0 THEN <<>>
            ELSE StoredBlock(LE(1001, 4) \o LE(1002, 4))
                     \o (IF I.id_count > 2048 THEN StoredBlock(LE(1003, 4))
                         ELSE <<>>)
                     \o pointer(id_at)
        bytes_used == id_at + Len(id_)
        superblock ==
            I.magic \o LE(I.inode_count, 4) \o LE(0, 4) \o LE(4096, 4)
                \o LE(I.frag_count, 4) \o LE(I.compressor, 2)
                \o LE(I.block_log, 2) \o LE(flags, 2) \o LE(I.id_count, 2)
                \o LE(I.version[1], 2) \o LE(I.version[2], 2)
                \o LE(0, 8) \o LE(bytes_used, 8)
                \o EncodeU64(IF I.id_count = 0 THEN NOT_SET
                             ELSE bytes_used - 8)
                \o EncodeU64(NOT_SET)
                \o LE(inode_table, 8) \o LE(dir_table, 8)
                \o EncodeU64(IF I.frag_count = 0 THEN NOT_SET
                             ELSE export_at - 8)
                \o EncodeU64(IF I.nfs THEN id_at - 8 ELSE NOT_SET)
    IN  [i \in 1..I.start |-> 7] \o superblock \o options \o data
            \o inode_blocks \o dir_blocks_ \o frag \o export_ \o id_

----------------------------------------------------------------------------
(* from_reader / from_reader_with_offset: Squashfs::inner_from_reader *)

Unread == [kind |-> "Unread"]

\* The statements of inner_from_reader that read the stream, in program
\* order, and the return.
Steps ==
    << "superblock", "compression_options", "data_and_fragments", "inodes",
       "root_inode", "fragments", "export", "id", "dir_blocks", "done" >>

\* The place of step in Steps.
StepIndex(order, step) == CHOOSE i \in 1..Len(order) : order[i] = step

\* Program order with `let id` ahead of `let export`.
StepAfterIdFirst(step) ==
    LET order == << "superblock", "compression_options",
                    "data_and_fragments", "inodes", "root_inode",
                    "fragments", "id", "export", "dir_blocks", "done" >>
    IN  order[StepIndex(order, step) + 1]

\* The statement control reaches when `step` has succeeded.
StepAfter(step) == Steps[StepIndex(Steps, step) + 1]

\* inner_from_reader ends: Err(e) through a `?`, or a panic.
ParseFail(r) ==
    /\ ppc' = "done"
    /\ presult' = [kind |-> r.kind, err |-> r.err]

\* No archive is being walked.
WalkIdle ==
    /\ layout = <<>>
    /\ inodes = <<>>
    /\ root_inode = <<>>
    /\ dir_blocks = <<>>
    /\ wpc = "done"
    /\ stack = <<>>
    /\ nodes = <<>>
    /\ result = [kind |-> "None"]

ParseInit ==
    /\ WalkIdle
    /\ image \in Images
    /\ reader = [io |-> ImageBytes(image), start |-> image.start, pos |-> 0]
    /\ ppc = "superblock"
    /\ sq = [ superblock |-> Unread, compression_options |-> Unread,
              data_and_fragments |-> Unread, inodes |-> Unread,
              root_inode |-> Unread, fragments |-> Unread, export |-> Unread,
              id |-> Unread, last_dir_position |-> Unread,
              dir_blocks |-> Unread ]
    /\ reads = <<>>
    /\ presult = [kind |-> "None"]

\* The superblock sq holds once it is parsed.
Sb == sq.superblock.value

\* reader.seek(SeekFrom::Start(0)), read_exact of 96 bytes and
\* SuperBlock::from_bytes.
ReadSuperBlock ==
    /\ ppc = "superblock"
    /\ reads' = Append(reads, "superblock")
    /\ LET r == read_exact(seek_from_start(reader, 0), 96)
       IN  IF ~r.ok
           THEN /\ ParseFail([kind |-> "Err", err |-> r.err])
                /\ UNCHANGED <<reader, sq>>
           ELSE /\ reader' = r.rd
                /\ LET s == SuperBlockFromBytes(r.bytes)
                   IN  IF s.ok
                       THEN /\ sq' = [sq EXCEPT !.superblock =
                                         [kind |-> "Some", value |-> s.superblock]]
                            /\ ppc' = StepAfter("superblock")
                            /\ UNCHANGED presult
                       ELSE /\ ParseFail([kind |-> "Err", err |-> s.err])
                            /\ UNCHANGED sq
    /\ UNCHANGED <<image, walkVars>>

\* The compression options, when the compressor is not None and the
\* superblock says they are present.
ReadCompressionOptions ==
    /\ ppc = "compression_options"
    /\ IF Sb.compressor # Compressor.None
           /\ compression_options_size(Sb).kind = "Some"
       THEN /\ reads' = Append(reads, "compression_options")
            /\ LET b == read_block(reader, Sb)
               IN  IF ~b.ok
                   THEN /\ ParseFail([kind |-> "Err", err |-> b.err])
                        /\ UNCHANGED <<reader, sq>>
                   ELSE /\ reader' = b.rd
                        /\ LET c == CompressionOptionsRead(b.bytes, Sb)
                           IN  IF c.ok
                               THEN /\ sq' = [sq EXCEPT !.compression_options =
                                                 [ kind |-> "Some",
                                                   value |-> c.options ]]
                                    /\ ppc' = StepAfter("compression_options")
                                    /\ UNCHANGED presult
                               ELSE /\ ParseFail([kind |-> "Err", err |-> c.err])
                                    /\ UNCHANGED sq
       ELSE /\ sq' = [sq EXCEPT !.compression_options = [kind |-> "None"]]
            /\ ppc' = StepAfter("compression_options")
            /\ UNCHANGED <<reader, reads, presult>>
    /\ UNCHANGED <<image, walkVars>>

\* One table step of inner_from_reader: the reader call r, stored in field
\* f of sq on success and returned as the error otherwise.
TableStep(section, f, r, next) ==
    /\ reads' = Append(reads, section)
    /\ IF r.kind = "Ok"
       THEN /\ reader' = r.rd
            /\ sq' = [sq EXCEPT ![f] = [kind |-> "Some", value |-> r.value]]
            /\ ppc' = next
            /\ UNCHANGED presult
       ELSE /\ ParseFail(r)
            /\ UNCHANGED <<reader, sq>>
    /\ UNCHANGED <<image, walkVars>>

ReadDataAndFragments ==
    /\ ppc = "data_and_fragments"
    /\ TableStep("data_and_fragments", "data_and_fragments",
                 data_and_fragments(reader, Sb),
                 StepAfter("data_and_fragments"))

ReadInodes ==
    /\ ppc = "inodes"
    /\ \E error_enabled \in BOOLEAN :
           TableStep("inodes", "inodes",
                     ReaderInodes(reader, Sb, error_enabled),
                     StepAfter("inodes"))

ReadRootInode ==
    /\ ppc = "root_inode"
    /\ TableStep("root_inode", "root_inode", ReaderRootInode(reader, Sb),
                 StepAfter("root_inode"))

\* A lookup-table step: the table is read from the stream only when the
\* reader call gets past its presence test.
LookupStep(section, f, r, next) ==
    /\ reads' = IF r.kind = "Ok" /\ r.value.kind = "None" THEN reads
                ELSE Append(reads, section)
    /\ IF r.kind = "Ok"
       THEN /\ reader' = r.rd
            /\ sq' = [sq EXCEPT ![f] = r.value]
            /\ ppc' = next
            /\ UNCHANGED presult
       ELSE /\ ParseFail(r)
            /\ UNCHANGED <<reader, sq>>
    /\ UNCHANGED <<image, walkVars>>

ReadFragments ==
    /\ ppc = "fragments"
    /\ LookupStep("fragments", "fragments", fragments(reader, Sb),
                  StepAfter("fragments"))

ReadExport ==
    /\ ppc = "export"
    /\ LookupStep("export", "export", export(reader, Sb),
                  StepAfter("export"))

ReadId ==
    /\ ppc = "id"
    /\ LookupStep("id", "id", id(reader, Sb), StepAfter("id"))

\* The end of the directory table: the pointer of the first table read
\* among fragments, export and id; unreachable!() when there is none.
LastDirPosition(fragment, export_, id_) ==
    IF fragment.kind = "Some" THEN [kind |-> "Some", value |-> fragment.ptr]
    ELSE IF export_.kind = "Some" THEN [kind |-> "Some", value |-> export_.ptr]
    ELSE IF id_.kind = "Some" THEN [kind |-> "Some", value |-> id_.ptr]
    ELSE [kind |-> "Panic", err |-> "unreachable!()"]

\* last_dir_position, reader.dir_blocks, and Ok(squashfs).
ReadDirBlocks ==
    /\ ppc = "dir_blocks"
    /\ LET last == LastDirPosition(sq.fragments, sq.export, sq.id)
       IN  IF last.kind = "Panic"
           THEN /\ ParseFail(last)
                /\ UNCHANGED <<reader, sq, reads>>
           ELSE LET r == ReaderDirBlocks(reader, Sb, last.value)
                IN  /\ reads' = Append(reads, "dir_blocks")
                    /\ IF r.kind = "Ok"
                       THEN /\ reader' = r.rd
                            /\ sq' = [sq EXCEPT
                                         !.last_dir_position = last,
                                         !.dir_blocks =
                                             [ kind |-> "Some",
                                               value |-> r.value ]]
                            /\ ppc' = StepAfter("dir_blocks")
                            /\ presult' = [kind |-> "Ok"]
                       ELSE /\ ParseFail(r)
                            /\ sq' = [sq EXCEPT !.last_dir_position = last]
                            /\ UNCHANGED reader
    /\ UNCHANGED <<image, walkVars>>

ParseNext ==
    \/ ReadSuperBlock
    \/ ReadCompressionOptions
    \/ ReadDataAndFragments
    \/ ReadInodes
    \/ ReadRootInode
    \/ ReadFragments
    \/ ReadExport
    \/ ReadId
    \/ ReadDirBlocks

Spec == ParseInit /\ [][ParseNext]_vars

----------------------------------------------------------------------------
(* Claims about from_reader (Spec) *)

\* The 96 bytes of the stream where the image starts.
RawSuperBlock == SubSeq(reader.io, reader.start + 1, reader.start + 96)

\* The magic is not "hsqs", or the version is not 4.0.
BadMagicOrVersion(b) ==
    \/ SubSeq(b, 1, 4) # <<104, 115, 113, 115>>
    \/ Uint(b, 28, 2) # 4
    \/ Uint(b, 30, 2) # 0

\* C1: a superblock whose magic is not "hsqs" or whose version is not 4.0
\* makes from_reader return an error: once the superblock step is taken
\* the parse is over with Err, no Squashfs field is set and nothing but the
\* superblock was read.
C1_BadSuperBlockRejected ==
    BadMagicOrVersion(RawSuperBlock) =>
        \/ ppc = "superblock"
        \/ /\ ppc = "done"
           /\ presult.kind = "Err"
           /\ reads = <<"superblock">>
           /\ \A f \in DOMAIN sq : sq[f] = Unread

\* C1's case: a stream with a wrong magic or version has been rejected.
C1_Witness ==
    /\ BadMagicOrVersion(RawSuperBlock)
    /\ ppc = "done"
    /\ presult.kind = "Err"

\* C2: every superblock that parsing accepts has block_log equal to
\* log2(block_size).
C2_BlockLogConsistent ==
    sq.superblock.kind = "Some" => 2 ^ Sb.block_log = Sb.block_size

\* C8: with id_count > 0 the id table is read and the archive's id field is
\* Some(entries), whatever flag bit 7 says.
C8_IdTableReadWhenCounted ==
    (sq.id # Unread /\ Sb.id_count > 0) => sq.id.kind = "Some"

\* C9: the end of the directory table is the pointer of the first table
\* present among fragment, export and id, and bytes_used when none is;
\* choosing it never reaches unreachable!().
C9_DirTableEndChosen ==
    /\ presult.kind = "Panic" => presult.err # "unreachable!()"
    /\ sq.last_dir_position.kind = "Some" =>
           sq.last_dir_position.value =
               IF sq.fragments.kind = "Some" THEN sq.fragments.ptr
               ELSE IF sq.export.kind = "Some" THEN sq.export.ptr
               ELSE IF sq.id.kind = "Some" THEN sq.id.ptr
               ELSE Sb.bytes_used

\* C10: when the inode table ends in bytes that do not decode as a complete
\* inode, inodes() returns an error, not the list of the inodes decoded
\* before them.
C10_PartialInodeIsError ==
    [][(ppc = "inodes" /\ image.tail # "none") => presult'.kind = "Err"]_vars

\* The order of the sections as the stream is said to be read; the root
\* inode is read from the inode table.
SectionsDirTableFirst ==
    << "superblock", "compression_options", "data_and_fragments", "inodes",
       "dir_blocks", "fragments", "export", "id" >>

SectionOf(read) == IF read = "root_inode" THEN "inodes" ELSE read

\* C11: the sections are read in the order superblock, compression options,
\* data-and-fragments region, inode table, directory table, fragment, export
\* and id tables: the directory table before any lookup table, and nothing
\* out of this order.
C11_DirTableBeforeLookupTables ==
    \A i, j \in 1..Len(reads) :
        i < j => StepIndex(SectionsDirTableFirst, SectionOf(reads[i]))
                     <= StepIndex(SectionsDirTableFirst, SectionOf(reads[j]))

\* C11, amended: the sections are read in the order superblock, compression
\* options, data-and-fragments region, inode table, root inode, fragment,
\* export and id tables, directory table: each at most once, none before
\* the statement that reads it is reached, the directory table last.
C11_DirTableAfterLookupTables ==
    /\ \A i, j \in 1..Len(reads) :
           i < j => StepIndex(Steps, reads[i]) < StepIndex(Steps, reads[j])
    /\ \A i \in 1..Len(reads) :
           StepIndex(Steps, reads[i]) < StepIndex(Steps, ppc)

\* C11's case: a parse that read all three lookup tables and then the
\* directory table.
C11_Witness ==
    /\ presult.kind = "Ok"
    /\ \E i \in 1..Len(reads) :
           /\ i + 3 = Len(reads)
           /\ SubSeq(reads, i, i + 3)
                  = <<"fragments", "export", "id", "dir_blocks">>

\* ceil(n / d) in the integers.
CeilDiv(n, d) == (n + d - 1) \div d

\* C13: the number of metadata blocks read for a lookup table is
\* ceil(count * W / 8192): W = 16 and frag_count for the fragment table,
\* W = 8 and inode_count for the export table, W = 4 and id_count for the id
\* table.
C13_LookupBlockCount ==
    /\ sq.fragments.kind = "Some" =>
           sq.fragments.block_count = CeilDiv(Sb.frag_count * 16, 8192)
    /\ sq.export.kind = "Some" =>
           sq.export.block_count = CeilDiv(Sb.inode_count * 8, 8192)
    /\ sq.id.kind = "Some" =>
           sq.id.block_count = CeilDiv(Sb.id_count * 4, 8192)

\* The eight bytes of the stream at image offset seek.
PointerBytes(seek) ==
    SubSeq(reader.io, reader.start + seek + 1, reader.start + seek + 8)

\* C14: lookup_table reads one u64 at the table pointer and seeks to that
\* 64-bit value: for each table read, the offset the blocks were read from
\* is the little-endian value of all eight bytes at the table pointer.
C14_PointerIsU64 ==
    /\ sq.fragments.kind = "Some" =>
           LE(sq.fragments.ptr, 8) = PointerBytes(Sb.frag_table)
    /\ sq.export.kind = "Some" =>
           LE(sq.export.ptr, 8) = PointerBytes(Sb.export_table)
    /\ sq.id.kind = "Some" =>
           LE(sq.id.ptr, 8) = PointerBytes(Sb.id_table)

\* The longest read tried after a seek.
MaxRead == 3

\* C16: seek_from_start(x) puts the underlying stream at start + x, after
\* which stream_position() is x, and x + n once n bytes are read: for every
\* offset x of the image and, in from_reader, after the superblock is read
\* from offset 0 and after data_and_fragments has read inode_table bytes
\* from offset 0.
C16_AddressedReader ==
    /\ \A x \in 0..(Len(reader.io) - reader.start) :
           LET at == seek_from_start(reader, x)
           IN  /\ at.pos = reader.start + x
               /\ stream_position(at) = x
               /\ \A n \in 0..MaxRead :
                      LET r == read_exact(at, n)
                      IN  r.ok => /\ stream_position(r.rd) = x + n
                                  /\ r.bytes = SubSeq(reader.io,
                                                      reader.start + x + 1,
                                                      reader.start + x + n)
    /\ ppc = "compression_options" =>
           /\ reader.pos = reader.start + 96
           /\ stream_position(reader) = 96
    /\ ppc = "inodes" =>
           /\ reader.pos = reader.start + Sb.inode_table
           /\ stream_position(reader) = Sb.inode_table

\* C16's case: in a stream whose image starts at offset 3,
\* data_and_fragments has sought to image offset 0 and read inode_table
\* bytes.
C16_Witness ==
    /\ reader.start > 0
    /\ ppc = "inodes"
    /\ sq.data_and_fragments.kind = "Some"
    /\ Len(sq.data_and_fragments.value) = Sb.inode_table
    /\ reader.pos = reader.start + Sb.inode_table

RECURSIVE BlockTurnsAdvance(_, _)
\* Every turn of a block-reading loop from rd up to the bound max: an
\* error, or a block and a position at least the two header bytes further
\* on and within the stream.
BlockTurnsAdvance(rd, max) ==
    \/ ~(stream_position(rd) < max)
    \/ LET b == read_block(rd, Sb)
       IN  b.ok => /\ b.rd.pos >= rd.pos + 2
                   /\ b.rd.pos <= Len(rd.io)
                   /\ BlockTurnsAdvance(b.rd, max)

RECURSIVE InodeTurnsShrink(_)
\* Every turn of the inode-decoding loop from ret_bytes on: a stop, or an
\* inode and strictly fewer bytes left.
InodeTurnsShrink(ret_bytes) ==
    \/ ret_bytes = <<>>
    \/ LET r == InodeRead(ret_bytes, Sb.block_size, Sb.block_log)
       IN  r.ok => /\ Len(r.rest) < Len(ret_bytes)
                   /\ InodeTurnsShrink(r.rest)

\* The bytes inodes() decodes: the blocks from inode_table up to dir_table.
InodeTableBytes ==
    LET bs == BlocksUntil(seek_from_start(reader, Sb.inode_table), Sb,
                          Sb.inode_table, Sb.dir_table, <<>>)
    IN  IF bs.ok THEN Flatten([i \in 1..Len(bs.blocks) |-> bs.blocks[i][2]])
        ELSE <<>>

\* A lookup table t of entries of width w, when from_reader is at step
\* `after`, the one that follows its read: block_count blocks were read
\* from ptr on, each of two bytes or more, and decoded to whole entries.
LookupReadEnded(t, w, after) ==
    (t.kind = "Some" /\ ppc = after) =>
        /\ stream_position(reader) >= t.ptr + 2 * t.block_count
        /\ reader.pos <= Len(reader.io)
        /\ \A i \in 1..Len(t.table) : Len(t.table[i]) = w

\* C17: inodes(), metadata_blocks() and metadata_with_count() end on every
\* stream. Each turn of a block-reading loop fails or moves the stream on
\* by two bytes or more, within the stream; each turn of a decoding loop
\* stops or leaves fewer bytes. So the inode loop ends at or past
\* dir_table, a lookup table ends block_count blocks past its pointer, and
\* the directory loop holds blocks of increasing start, all below its
\* bound, and ends at or past the bound.
C17_TableReadsTerminate ==
    /\ ppc = "inodes" =>
           /\ BlockTurnsAdvance(seek_from_start(reader, Sb.inode_table),
                                Sb.dir_table)
           /\ InodeTurnsShrink(InodeTableBytes)
    /\ ppc = "root_inode" => stream_position(reader) >= Sb.dir_table
    /\ LookupReadEnded(sq.fragments, FRAGMENT_SIZE, "export")
    /\ LookupReadEnded(sq.export, EXPORT_SIZE, "id")
    /\ LookupReadEnded(sq.id, ID_SIZE, "dir_blocks")
    /\ ppc = "dir_blocks" =>
           LET last == LastDirPosition(sq.fragments, sq.export, sq.id)
           IN  last.kind = "Some" =>
                   BlockTurnsAdvance(seek_from_start(reader, Sb.dir_table),
                                     last.value)
    /\ sq.dir_blocks.kind = "Some" =>
           LET bs == sq.dir_blocks.value
               bound == sq.last_dir_position.value
           IN  /\ \A i \in 1..Len(bs) : Sb.dir_table + bs[i][1] < bound
               /\ \A i \in 1..(Len(bs) - 1) : bs[i + 1][1] >= bs[i][1] + 2
               /\ stream_position(reader) >= bound
               /\ reader.pos <= Len(reader.io)

\* C17's case: a parse that ran the three loops to their end: the inode
\* table, a lookup table and the directory table were read.
C17_Witness ==
    /\ presult.kind = "Ok"
    /\ Len(sq.inodes.value) = 2
    /\ sq.id.kind = "Some"
    /\ Len(sq.id.table) = 2
    /\ Len(sq.dir_blocks.value) = 1

====
